---- MODULE Spec2Model ----
(***************************************************************************)
(* Model of the status-server event core: the file-backed user store       *)
(* (fileDB), the session registry with its event fanout (localEventDB /    *)
(* localDBSession) and the per-session event channel.                      *)
(*                                                                         *)
(* Every registry operation runs with localEventDB.lock held from its      *)
(* first to its last statement, so each is one atomic action of Spec.      *)
(* SpecPush models pushEvent / clearAndPush statement by statement against *)
(* a concurrently receiving consumer.                                      *)
(*                                                                         *)
(* Abstractions: a UserStatus is its Availability (Message, Time and       *)
(* UserMetadata are dropped); a bcrypt hash of password p is <<"bcrypt",p>>;*)
(* an error is the sequence of its contexts followed by its root cause,    *)
(* the empty sequence being nil.                                           *)
(***************************************************************************)
EXTENDS Integers, Sequences, FiniteSets, TLC

\* ---- bounds of the model ----
BufferSize == 2        \* localEventDB.bufferSize, the depth K of every Outbox
MaxSessions == 3       \* BeginSession calls that succeed in one behaviour
MaxOps == 5            \* operations (calls and receives) in one behaviour
MaxCalls == 3          \* SpecLock: concurrent calls in one behaviour
MaxStateSends == 12    \* SpecConn: state-lane WriteMessage calls in one behaviour
MaxCloseCalls == 3     \* SpecClose: Close calls of the tasks in one behaviour

StateBufferSize == 10  \* connection.go: const StateBufferSize

\* ---- inputs ----
Registered == <<"a", "b">>            \* identities added by AddUser
Emails == {"a", "b", "c"}             \* "c" is an unknown email
Passwords == {"p", "q"}
InitialPassword == "p"
Availabilities == {"Offline", "Available", "Away"}

nil == <<>>

VARIABLES
    UserRecords,   \* fileDB.UserRecords: sequence of UserInfo
    sessions,      \* localEventDB.sessions: sequence of session ids
    heap,          \* every localDBSession ever created, by id
    panicked,      \* Close hit "DBSession missing from list"
    last,          \* history: the operation taken last, its result, its pushes, the event received
    pushes,        \* history: pushEvent calls per session since creation
    drained,       \* history: whether the session's channel was ever received from
    nops,          \* history: number of operations so far
    run,           \* SpecPush: the statement the lock holder is at in pushEvent / clearAndPush
    conc,          \* SpecLock: the eventDB lock, the calling goroutines and the effects they made
    conn           \* SpecConn: one BufferedConnection, its senders and its writer

vars == <<UserRecords, sessions, heap, panicked, last, pushes, drained, nops, run, conc, conn>>

\* ---- errors ----
ErrPassword == <<"ErrPassword">>
ErrNoEmail == <<"ErrNoEmail">>
ErrNotOpen == <<"ErrNotOpen">>
ErrIntentionalDisconnect == <<"ErrIntentionalDisconnect">>
ErrMismatchedHashAndPassword == <<"ErrMismatchedHashAndPassword">>

\* essentials.AddCtx: nil stays nil, an error gets the context in front
AddCtx(ctx, err) == IF err = nil THEN nil ELSE <<ctx>> \o err

\* the root cause of an error
Cause(err) == err[Len(err)]

\* ---- bcrypt ----
GenerateFromPassword(password) == <<"bcrypt", password>>

CompareHashAndPassword(hash, password) ==
    IF hash = <<"bcrypt", password>> THEN nil ELSE ErrMismatchedHashAndPassword

\* ---- fileDB helpers ----
emailsEquivalent(e1, e2) == e1 = e2

containsEmail(list, email) ==
    \E i \in 1..Len(list) : emailsEquivalent(list[i], email)

\* essentials.OrderedDelete: remove index i, keep the order
OrderedDelete(list, i) ==
    SubSeq(list, 1, i - 1) \o SubSeq(list, i + 1, Len(list))

\* (variant: the last element is dropped without being moved to index i)
UnorderedDelete_DropLast(list, i) == SubSeq(list, 1, Len(list) - 1)

\* essentials.UnorderedDelete: move the last element to index i, drop the last
UnorderedDelete(list, i) ==
    SubSeq([list EXCEPT ![i] = list[Len(list)]], 1, Len(list) - 1)

\* removes the first equivalent entry, if any
removeEmail(list, email) ==
    IF containsEmail(list, email)
    THEN OrderedDelete(list,
             CHOOSE i \in 1..Len(list) :
                 /\ emailsEquivalent(list[i], email)
                 /\ \A j \in 1..(i - 1) : ~emailsEquivalent(list[j], email))
    ELSE list

\* index of the first record with that email, 0 for a nil result
findUser(recs, email) ==
    IF \E i \in 1..Len(recs) : emailsEquivalent(recs[i].Email, email)
    THEN CHOOSE i \in 1..Len(recs) :
             /\ emailsEquivalent(recs[i].Email, email)
             /\ \A j \in 1..(i - 1) : ~emailsEquivalent(recs[j].Email, email)
    ELSE 0

\* the record AddUser appends
NewUser(email, password) ==
    [Email |-> email, Hash |-> GenerateFromPassword(password), Verified |-> TRUE,
     Buddies |-> <<>>, IncomingRequests |-> <<>>, OutgoingRequests |-> <<>>,
     LatestStatus |-> "Available"]

\* fileDB.mutate applied to the mutator's outcome r = [recs, err]; wr is
\* whether ioutil.WriteFile succeeds.  The records in memory keep whatever
\* the mutator did to them.
mutate(ctx, r, wr) ==
    IF r.err # nil THEN [recs |-> r.recs, err |-> AddCtx(ctx, r.err)]
    ELSE IF wr THEN [recs |-> r.recs, err |-> nil]
    ELSE [recs |-> r.recs, err |-> <<"write file failed">>]

CheckLogin(recs, email, password) ==
    LET u == findUser(recs, email) IN
    AddCtx("check login",
           IF u # 0 THEN CompareHashAndPassword(recs[u].Hash, password)
           ELSE ErrNoEmail)

\* info is <<copy>> on success and <<>> (nil) on failure
GetUserInfo(recs, email) ==
    LET u == findUser(recs, email) IN
    IF u # 0 THEN [info |-> <<recs[u]>>, err |-> nil]
    ELSE [info |-> <<>>, err |-> AddCtx("get user info", ErrNoEmail)]

DBSetPassword(recs, email, oldPass, newPass, wr) ==
    LET u == findUser(recs, email)
        r == IF u # 0
             THEN IF CompareHashAndPassword(recs[u].Hash, oldPass) # nil
                  THEN [recs |-> recs,
                        err |-> CompareHashAndPassword(recs[u].Hash, oldPass)]
                  ELSE [recs |-> [recs EXCEPT ![u].Hash = GenerateFromPassword(newPass)],
                        err |-> ErrNoEmail]
             ELSE [recs |-> recs, err |-> ErrNoEmail]
    IN mutate("set password", r, wr)

\* DBSendRequest without the check for a request in the other direction
DBSendRequest_NoReverseCheck(recs, from, to, wr) ==
    LET f == findUser(recs, from)
        t == findUser(recs, to)
        r == IF f # 0 /\ t # 0
             THEN IF containsEmail(recs[t].Buddies, recs[f].Email)
                  THEN [recs |-> recs, err |-> <<"already buddies">>]
                  ELSE IF containsEmail(recs[t].IncomingRequests, recs[f].Email)
                  THEN [recs |-> recs, err |-> <<"request already exists">>]
                  ELSE LET r1 == [recs EXCEPT ![t].IncomingRequests = Append(@, recs[f].Email)]
                           r2 == [r1 EXCEPT ![f].OutgoingRequests = Append(@, r1[t].Email)]
                       IN [recs |-> r2, err |-> nil]
             ELSE [recs |-> recs, err |-> ErrNoEmail]
    IN mutate("send request", r, wr)

DBSendRequest(recs, from, to, wr) ==
    LET f == findUser(recs, from)
        t == findUser(recs, to)
        r == IF f # 0 /\ t # 0
             THEN IF containsEmail(recs[t].Buddies, recs[f].Email)
                  THEN [recs |-> recs, err |-> <<"already buddies">>]
                  ELSE IF containsEmail(recs[t].OutgoingRequests, recs[f].Email)
                  THEN [recs |-> recs, err |-> <<"request exists in the other direction">>]
                  ELSE IF containsEmail(recs[t].IncomingRequests, recs[f].Email)
                  THEN [recs |-> recs, err |-> <<"request already exists">>]
                  ELSE LET r1 == [recs EXCEPT ![t].IncomingRequests = Append(@, recs[f].Email)]
                           r2 == [r1 EXCEPT ![f].OutgoingRequests = Append(@, r1[t].Email)]
                       IN [recs |-> r2, err |-> nil]
             ELSE [recs |-> recs, err |-> ErrNoEmail]
    IN mutate("send request", r, wr)

DBAcceptRequest(recs, email, other, wr) ==
    LET u == findUser(recs, email)
        o == findUser(recs, other)
        r == IF u # 0 /\ o # 0
             THEN IF ~containsEmail(recs[o].OutgoingRequests, recs[u].Email)
                  THEN [recs |-> recs, err |-> <<"request does not exist">>]
                  ELSE LET r1 == [recs EXCEPT ![o].OutgoingRequests = removeEmail(@, recs[u].Email)]
                           r2 == [r1 EXCEPT ![u].IncomingRequests = removeEmail(@, r1[o].Email)]
                           r3 == [r2 EXCEPT ![o].Buddies = Append(@, r2[u].Email)]
                           r4 == [r3 EXCEPT ![u].Buddies = Append(@, r3[o].Email)]
                       IN [recs |-> r4, err |-> nil]
             ELSE [recs |-> recs, err |-> ErrNoEmail]
    IN mutate("accept request", r, wr)

DBDeleteBuddy(recs, email, other, wr) ==
    LET u == findUser(recs, email)
        o == findUser(recs, other)
        r == IF u # 0 /\ o # 0
             THEN IF containsEmail(recs[u].IncomingRequests, recs[o].Email)
                  THEN LET r1 == [recs EXCEPT ![u].IncomingRequests = removeEmail(@, recs[o].Email)]
                           r2 == [r1 EXCEPT ![o].OutgoingRequests = removeEmail(@, r1[u].Email)]
                       IN [recs |-> r2, err |-> nil]
                  ELSE IF containsEmail(recs[u].OutgoingRequests, recs[o].Email)
                  THEN LET r1 == [recs EXCEPT ![u].OutgoingRequests = removeEmail(@, recs[o].Email)]
                           r2 == [r1 EXCEPT ![o].IncomingRequests = removeEmail(@, r1[u].Email)]
                       IN [recs |-> r2, err |-> nil]
                  ELSE IF containsEmail(recs[u].Buddies, recs[o].Email)
                  THEN LET r1 == [recs EXCEPT ![u].Buddies = removeEmail(@, recs[o].Email)]
                           r2 == [r1 EXCEPT ![o].Buddies = removeEmail(@, r1[u].Email)]
                       IN [recs |-> r2, err |-> nil]
                  ELSE [recs |-> recs, err |-> <<"not buddies">>]
             ELSE [recs |-> recs, err |-> ErrNoEmail]
    IN mutate("delete buddy", r, wr)

DBSetStatus(recs, email, status, wr) ==
    LET u == findUser(recs, email)
        r == IF u # 0
             THEN IF status # "Available" /\ status # "Away"
                  THEN [recs |-> recs, err |-> <<"invalid availability">>]
                  ELSE [recs |-> [recs EXCEPT ![u].LatestStatus = status], err |-> nil]
             ELSE [recs |-> recs, err |-> ErrNoEmail]
    IN mutate("set status", r, wr)

\* statuses of the emails, in order; ErrNoEmail if any of them is unknown
GetStatuses(recs, emails) ==
    IF \A i \in 1..Len(emails) : findUser(recs, emails[i]) # 0
    THEN [statuses |-> [i \in 1..Len(emails) |-> recs[findUser(recs, emails[i])].LatestStatus],
          err |-> nil]
    ELSE [statuses |-> <<>>, err |-> ErrNoEmail]

\* ---- events ----
Event(type) ==
    [Type |-> type, UserInfo |-> <<>>, BuddyStatuses |-> <<>>,
     Email |-> "", Status |-> "Offline", ErrorMessage |-> <<>>]

EventFor(type, email) == [Event(type) EXCEPT !.Email = email]

EventWith(type, email, status) ==
    [Event(type) EXCEPT !.Email = email, !.Status = status]

SyncError(msg) == [Event("SyncError") EXCEPT !.ErrorMessage = msg]

\* ---- localEventDB ----
\* reg is localEventDB.sessions, hp the session objects, recs the store.
userOnline(reg, hp, email) ==
    \E i \in 1..Len(reg) : emailsEquivalent(hp[reg[i]].email, email)

\* (variant: the stored status is shown whether or not the identity is online)
maskUserStatus_Stored(reg, hp, email, status) == status

maskUserStatus(reg, hp, email, status) ==
    IF userOnline(reg, hp, email) THEN status ELSE "Offline"

\* localDBSession.fullStateEvent for a session of identity email;
\* ev is <<event>> on success and <<>> (nil) on failure
fullStateEvent(recs, reg, hp, email) ==
    LET ui == GetUserInfo(recs, email) IN
    IF ui.err # nil THEN [ev |-> <<>>, err |-> ui.err]
    ELSE LET userInfo == ui.info[1]
             gs == GetStatuses(recs, userInfo.Buddies)
         IN IF gs.err # nil THEN [ev |-> <<>>, err |-> gs.err]
            ELSE [ev |-> <<[Event("FullState") EXCEPT
                              !.UserInfo = <<userInfo>>,
                              !.BuddyStatuses =
                                  [i \in 1..Len(gs.statuses) |->
                                      maskUserStatus(reg, hp, userInfo.Buddies[i],
                                                     gs.statuses[i])]]>>,
                  err |-> nil]

\* localDBSession.clearAndPush on the channel content q: receive until the
\* channel is empty, then send e
RECURSIVE clearAndPush(_, _)
clearAndPush(q, e) ==
    IF Len(q) > 0 THEN clearAndPush(Tail(q), e) ELSE Append(q, e)

\* A fanout in progress: st.hp are the session objects, st.log the pushEvent
\* calls made so far by the running operation, st.built the FullState,
\* AcceptSent and RequestAccepted events it has constructed.
Logged(st, s, e, q) ==
    [st EXCEPT !.hp[s].events = q,
               !.log = Append(@, [s |-> s, e |-> e,
                                  lenBefore |-> Len(st.hp[s].events),
                                  after |-> q])]

\* (variant: on overflow the oldest event is dropped to make room for e)
pushEvent_DropOldest(st, recs, reg, s, e) ==
    IF Len(st.hp[s].events) < BufferSize
    THEN Logged(st, s, e, Append(st.hp[s].events, e))
    ELSE Logged(st, s, e, Append(Tail(st.hp[s].events), e))

\* (variant: on overflow e is dropped and the queue is kept)
pushEvent_DropNewest(st, recs, reg, s, e) ==
    IF Len(st.hp[s].events) < BufferSize
    THEN Logged(st, s, e, Append(st.hp[s].events, e))
    ELSE Logged(st, s, e, st.hp[s].events)

\* localDBSession.pushEvent on session s
pushEvent(st, recs, reg, s, e) ==
    IF Len(st.hp[s].events) < BufferSize
    THEN Logged(st, s, e, Append(st.hp[s].events, e))
    ELSE LET fs == fullStateEvent(recs, reg, st.hp, st.hp[s].email)
             newEvent == IF fs.err # nil THEN SyncError(fs.err) ELSE fs.ev[1]
             st1 == IF fs.err # nil THEN st
                    ELSE [st EXCEPT !.built = Append(@, newEvent)]
         IN Logged(st1, s, e, clearAndPush(st.hp[s].events, newEvent))

RECURSIVE pushToUserFrom_FirstOnly(_, _, _, _, _, _)
\* (variant: the loop stops at the first session of the identity)
pushToUserFrom_FirstOnly(st, recs, reg, email, e, i) ==
    IF i > Len(reg) THEN st
    ELSE IF emailsEquivalent(st.hp[reg[i]].email, email)
         THEN pushEvent(st, recs, reg, reg[i], e)
         ELSE pushToUserFrom_FirstOnly(st, recs, reg, email, e, i + 1)

RECURSIVE pushToUserFrom(_, _, _, _, _, _)
pushToUserFrom(st, recs, reg, email, e, i) ==
    IF i > Len(reg) THEN st
    ELSE IF emailsEquivalent(st.hp[reg[i]].email, email)
         THEN pushToUserFrom(pushEvent(st, recs, reg, reg[i], e), recs, reg, email, e, i + 1)
         ELSE pushToUserFrom(st, recs, reg, email, e, i + 1)

pushToUser(st, recs, reg, email, e) == pushToUserFrom(st, recs, reg, email, e, 1)

RECURSIVE cannotBroadcastFrom(_, _, _, _)
cannotBroadcastFrom(st, recs, reg, i) ==
    IF i > Len(reg) THEN st
    ELSE cannotBroadcastFrom(
             pushEvent(st, recs, reg, reg[i],
                       SyncError(<<"could not keep data consistent">>)),
             recs, reg, i + 1)

\* (variant: the failed broadcast is dropped without a word)
cannotBroadcast_Silent(st, recs, reg) == st

cannotBroadcast(st, recs, reg) == cannotBroadcastFrom(st, recs, reg, 1)

\* (variant: the inner loop over the buddies has no break)
RECURSIVE pushTimes(_, _, _, _, _, _)
pushTimes(st, recs, reg, s, e, n) ==
    IF n = 0 THEN st ELSE pushTimes(pushEvent(st, recs, reg, s, e), recs, reg, s, e, n - 1)

RECURSIVE broadcastFrom_NoBreak(_, _, _, _, _, _)
broadcastFrom_NoBreak(st, recs, reg, buddies, event, i) ==
    IF i > Len(reg) THEN st
    ELSE broadcastFrom_NoBreak(
             pushTimes(st, recs, reg, reg[i], event,
                       Cardinality({b \in 1..Len(buddies) :
                                        emailsEquivalent(buddies[b], st.hp[reg[i]].email)})),
             recs, reg, buddies, event, i + 1)

\* the loop of broadcastNewStatus: one push per session whose identity is
\* among buddies (the inner loop breaks at the first match)
RECURSIVE broadcastFrom(_, _, _, _, _, _)
broadcastFrom(st, recs, reg, buddies, event, i) ==
    IF i > Len(reg) THEN st
    ELSE IF \E b \in 1..Len(buddies) : emailsEquivalent(buddies[b], st.hp[reg[i]].email)
         THEN broadcastFrom(pushEvent(st, recs, reg, reg[i], event),
                            recs, reg, buddies, event, i + 1)
         ELSE broadcastFrom(st, recs, reg, buddies, event, i + 1)

\* broadcastNewStatus from the result ui of its l.db.GetUserInfo(email) on
broadcastNewStatusWith(st, recs, reg, status, ui) ==
    IF ui.err # nil THEN cannotBroadcast(st, recs, reg)
    ELSE broadcastFrom(st, recs, reg, ui.info[1].Buddies,
                       [Event("StatusChanged") EXCEPT !.Status = status], 1)

broadcastNewStatus(st, recs, reg, email, status) ==
    broadcastNewStatusWith(st, recs, reg, status, GetUserInfo(recs, email))

\* the result of a DB.GetUserInfo whose read of the store fails
ReadFailed == [info |-> <<>>, err |-> <<"read failed">>]

\* (variant: the index is not stepped back after the deletion)
RECURSIVE disconnectOthersFrom_SkipNext(_, _, _, _)
disconnectOthersFrom_SkipNext(hp, reg, s, i) ==
    IF i > Len(reg) THEN [hp |-> hp, reg |-> reg]
    ELSE IF reg[i] # s /\ emailsEquivalent(hp[reg[i]].email, hp[s].email)
         THEN disconnectOthersFrom_SkipNext(
                  [hp EXCEPT ![reg[i]].intentionalDiscon = TRUE,
                             ![reg[i]].events =
                                 clearAndPush(@, Event("IntentionalDisconnect"))],
                  OrderedDelete(reg, i), s, i + 1)
         ELSE disconnectOthersFrom_SkipNext(hp, reg, s, i + 1)

\* localDBSession.disconnectOthers called on session s, from index i on
RECURSIVE disconnectOthersFrom(_, _, _, _)
disconnectOthersFrom(hp, reg, s, i) ==
    IF i > Len(reg) THEN [hp |-> hp, reg |-> reg]
    ELSE IF reg[i] # s /\ emailsEquivalent(hp[reg[i]].email, hp[s].email)
         THEN disconnectOthersFrom(
                  [hp EXCEPT ![reg[i]].intentionalDiscon = TRUE,
                             ![reg[i]].events =
                                 clearAndPush(@, Event("IntentionalDisconnect"))],
                  OrderedDelete(reg, i), s, i)
         ELSE disconnectOthersFrom(hp, reg, s, i + 1)

disconnectOthers(hp, reg, s) == disconnectOthersFrom(hp, reg, s, 1)

\* ---- localDBSession operations ----
\* The outcome of an operation body: the store, the registry, the session
\* objects, the pushes made, the events built and the error returned.
Res(recs, reg, st, err) ==
    [recs |-> recs, reg |-> reg, hp |-> st.hp, log |-> st.log,
     built |-> st.built, err |-> err]

St0 == [hp |-> heap, log |-> <<>>, built |-> <<>>]

Unchanged(err) == Res(UserRecords, sessions, St0, err)

\* (variant: the intentionalDiscon test is missing)
genericOperation_NoEvictedCheck(s, ctx, r) ==
    IF heap[s].closed THEN Unchanged(AddCtx(ctx, ErrNotOpen))
    ELSE [r EXCEPT !.err = AddCtx(ctx, r.err)]

\* localDBSession.genericOperation: r is the outcome of f()
genericOperation(s, ctx, r) ==
    IF heap[s].closed THEN Unchanged(AddCtx(ctx, ErrNotOpen))
    ELSE IF heap[s].intentionalDiscon THEN Unchanged(AddCtx(ctx, ErrIntentionalDisconnect))
    ELSE [r EXCEPT !.err = AddCtx(ctx, r.err)]

SetPasswordOp(s, oldPass, newPass, wr) ==
    genericOperation(s, "set password",
        LET d == DBSetPassword(UserRecords, heap[s].email, oldPass, newPass, wr) IN
        IF d.err # nil THEN Res(d.recs, sessions, St0, d.err)
        ELSE LET x == disconnectOthers(heap, sessions, s)
             IN Res(d.recs, x.reg, [St0 EXCEPT !.hp = x.hp], nil))

SendRequestOp(s, email, wr) ==
    genericOperation(s, "send request",
        LET d == DBSendRequest(UserRecords, heap[s].email, email, wr) IN
        IF d.err # nil THEN Res(d.recs, sessions, St0, d.err)
        ELSE LET st1 == pushToUser(St0, d.recs, sessions, email,
                                   EventFor("RequestReceived", heap[s].email))
                 st2 == pushToUser(st1, d.recs, sessions, heap[s].email,
                                   EventFor("RequestSent", email))
             IN Res(d.recs, sessions, st2, nil))

\* AcceptRequestOp with the targets of its two events exchanged
AcceptRequestOp_SwappedTargets(s, email, wr) ==
    genericOperation(s, "accept request",
        LET gs == GetStatuses(UserRecords, <<heap[s].email, email>>) IN
        IF gs.err # nil THEN Unchanged(gs.err)
        ELSE LET ourStatus == maskUserStatus(sessions, heap, heap[s].email, gs.statuses[1])
                 otherStatus == maskUserStatus(sessions, heap, email, gs.statuses[2])
                 d == DBAcceptRequest(UserRecords, heap[s].email, email, wr)
             IN IF d.err # nil THEN Res(d.recs, sessions, St0, d.err)
                ELSE LET accepted == EventWith("RequestAccepted", heap[s].email, ourStatus)
                         sent == EventWith("AcceptSent", email, otherStatus)
                         st1 == pushToUser([St0 EXCEPT !.built = <<accepted, sent>>],
                                           d.recs, sessions, heap[s].email, accepted)
                         st2 == pushToUser(st1, d.recs, sessions, email, sent)
                     IN Res(d.recs, sessions, st2, nil))

AcceptRequestOp(s, email, wr) ==
    genericOperation(s, "accept request",
        LET gs == GetStatuses(UserRecords, <<heap[s].email, email>>) IN
        IF gs.err # nil THEN Unchanged(gs.err)
        ELSE LET ourStatus == maskUserStatus(sessions, heap, heap[s].email, gs.statuses[1])
                 otherStatus == maskUserStatus(sessions, heap, email, gs.statuses[2])
                 d == DBAcceptRequest(UserRecords, heap[s].email, email, wr)
             IN IF d.err # nil THEN Res(d.recs, sessions, St0, d.err)
                ELSE LET accepted == EventWith("RequestAccepted", heap[s].email, ourStatus)
                         sent == EventWith("AcceptSent", email, otherStatus)
                         st1 == pushToUser([St0 EXCEPT !.built = <<accepted, sent>>],
                                           d.recs, sessions, email, accepted)
                         st2 == pushToUser(st1, d.recs, sessions, heap[s].email, sent)
                     IN Res(d.recs, sessions, st2, nil))

DeleteBuddyOp(s, email, wr) ==
    genericOperation(s, "delete buddy",
        LET d == DBDeleteBuddy(UserRecords, heap[s].email, email, wr) IN
        IF d.err # nil THEN Res(d.recs, sessions, St0, d.err)
        ELSE LET st1 == pushToUser(St0, d.recs, sessions, email,
                                   EventFor("BuddyRemoved", heap[s].email))
                 st2 == pushToUser(st1, d.recs, sessions, heap[s].email,
                                   EventFor("BuddyRemoved", email))
             IN Res(d.recs, sessions, st2, nil))

SetStatusOp(s, status, wr) ==
    genericOperation(s, "set status",
        LET d == DBSetStatus(UserRecords, heap[s].email, status, wr) IN
        IF d.err # nil THEN Res(d.recs, sessions, St0, d.err)
        ELSE Res(d.recs, sessions,
                 broadcastNewStatus(St0, d.recs, sessions, heap[s].email, status), nil))

DisconnectOthersOp(s) ==
    genericOperation(s, "disconnect others",
        LET x == disconnectOthers(heap, sessions, s)
        IN Res(UserRecords, x.reg, [St0 EXCEPT !.hp = x.hp], nil))

\* Close, from the loop over the registry on: the session is deleted, and
\* Offline is broadcast if no session of its identity is left; err <<"panic">>
\* stands for the panic after the loop.
\* (variant: the broadcast is made whether or not a session is left)
CloseRegistered_AlwaysBroadcast(s) ==
    LET hp1 == [heap EXCEPT ![s].closed = TRUE] IN
    IF \E i \in 1..Len(sessions) : sessions[i] = s
    THEN LET i == CHOOSE i \in 1..Len(sessions) : sessions[i] = s
             reg1 == UnorderedDelete(sessions, i)
         IN Res(UserRecords, reg1,
                broadcastNewStatus([St0 EXCEPT !.hp = hp1], UserRecords, reg1,
                                   heap[s].email, "Offline"),
                nil)
    ELSE Res(UserRecords, sessions, [St0 EXCEPT !.hp = hp1], <<"panic">>)

CloseRegistered(s) ==
    LET hp1 == [heap EXCEPT ![s].closed = TRUE] IN
    IF \E i \in 1..Len(sessions) : sessions[i] = s
    THEN LET i == CHOOSE i \in 1..Len(sessions) : sessions[i] = s
             reg1 == UnorderedDelete(sessions, i)
             st1 == [St0 EXCEPT !.hp = hp1]
         IN IF ~userOnline(reg1, hp1, heap[s].email)
            THEN Res(UserRecords, reg1,
                     broadcastNewStatus(st1, UserRecords, reg1, heap[s].email, "Offline"),
                     nil)
            ELSE Res(UserRecords, reg1, st1, nil)
    ELSE Res(UserRecords, sessions, [St0 EXCEPT !.hp = hp1], <<"panic">>)

\* (variant: the intentionalDiscon test is missing)
CloseOpen_NoEvictedCheck(s) == CloseRegistered(s)

\* Close, after the closed test: l.closed = true, and an evicted session
\* returns nil at once
CloseOpen(s) ==
    IF heap[s].intentionalDiscon
    THEN Res(UserRecords, sessions, [St0 EXCEPT !.hp = [heap EXCEPT ![s].closed = TRUE]], nil)
    ELSE CloseRegistered(s)

\* (variant: the closed test is missing)
CloseOp_NoClosedCheck(s) == CloseOpen(s)

\* localDBSession.Close
CloseOp(s) ==
    IF heap[s].closed THEN Unchanged(AddCtx("close DBSession", ErrNotOpen))
    ELSE CloseOpen(s)

\* SetStatus on a DB whose GetUserInfo fails after SetStatus persisted
SetStatusFaultOp(s, status, wr) ==
    genericOperation(s, "set status",
        LET d == DBSetStatus(UserRecords, heap[s].email, status, wr) IN
        IF d.err # nil THEN Res(d.recs, sessions, St0, d.err)
        ELSE Res(d.recs, sessions,
                 broadcastNewStatusWith(St0, d.recs, sessions, status, ReadFailed), nil))

\* Close on a DB whose GetUserInfo fails
CloseFaultOp(s) ==
    LET hp1 == [heap EXCEPT ![s].closed = TRUE] IN
    IF heap[s].closed THEN Unchanged(AddCtx("close DBSession", ErrNotOpen))
    ELSE IF heap[s].intentionalDiscon
    THEN Res(UserRecords, sessions, [St0 EXCEPT !.hp = hp1], nil)
    ELSE IF \E i \in 1..Len(sessions) : sessions[i] = s
    THEN LET i == CHOOSE i \in 1..Len(sessions) : sessions[i] = s
             reg1 == UnorderedDelete(sessions, i)
             st1 == [St0 EXCEPT !.hp = hp1]
         IN IF ~userOnline(reg1, hp1, heap[s].email)
            THEN Res(UserRecords, reg1,
                     broadcastNewStatusWith(st1, UserRecords, reg1, "Offline", ReadFailed),
                     nil)
            ELSE Res(UserRecords, reg1, st1, nil)
    ELSE Res(UserRecords, sessions, [St0 EXCEPT !.hp = hp1], <<"panic">>)

\* ---- history ----
NoArgs == [email |-> "", password |-> "", newPass |-> "", status |-> "", wr |-> TRUE]

Called(op, s, args, r) ==
    [op |-> op, s |-> s, args |-> args, err |-> r.err, log |-> r.log, built |-> r.built,
     got |-> <<>>, first |-> FALSE]

CountFor(log, s) == Cardinality({i \in 1..Len(log) : log[i].s = s})

\* the state change of a call on an existing session with outcome r
Apply(op, s, args, r) ==
    /\ UserRecords' = r.recs
    /\ sessions' = r.reg
    /\ heap' = r.hp
    /\ panicked' = (r.err = <<"panic">>)
    /\ last' = Called(op, s, args, r)
    /\ pushes' = [t \in 1..Len(pushes) |-> pushes[t] + CountFor(r.log, t)]
    /\ nops' = nops + 1
    /\ UNCHANGED <<drained, run, conc, conn>>

Idle == [at |-> "idle", call |-> "", s |-> 0, e |-> Event(""), iters |-> 0, raced |-> FALSE]

CanStep == ~panicked /\ nops < MaxOps

RegisteredEmails == {Registered[i] : i \in 1..Len(Registered)}

\* NewBufferedConnection: empty stateSends, closeChan open, the writer at the
\* top of writeLoop, no WriteMessage call in progress.  stateSends holds,
\* for each queued state message, whether it was enqueued after the control
\* send began.  History: overtook counts (up to 2) the state messages the
\* writer took while the control sender was waiting, late tells whether one of them was
\* enqueued after the control send began.
\* the tasks that call Close: the handler's deferred conn.Close() and an
\* external shutdown (1, 2), and the writer after a failed write (3)
ClosingTasks == {1, 2}

WriterTask == 3

\* closeLock is 0 when free, else the task holding it; closer is the
\* statement of Close each task is at.  History: nclose counts the calls of
\* the underlying Connection.Close, nsignal those of close(b.closeChan),
\* ncalls the Close calls of the tasks, returned those that returned,
\* inRange whether a state-lane WriteMessage was inside its range loop when
\* closeChan was closed.
NewBufferedConnection ==
    [stateSends |-> <<>>, closed |-> FALSE,
     writer |-> "select1", msg |-> "",
     control |-> "idle", state |-> "idle",
     nsends |-> 0, overtook |-> 0, late |-> FALSE,
     closeLock |-> 0, closer |-> [c \in ClosingTasks \cup {WriterTask} |-> "idle"],
     nclose |-> 0, nsignal |-> 0, ncalls |-> 0, returned |-> 0, inRange |-> FALSE]

\* the goroutines that call the registry concurrently
Callers == {1, 2}

\* a goroutine outside any call
IdleG == [pc |-> "idle", op |-> "", s |-> 0, email |-> "", status |-> "",
          i |-> 0, buddies |-> <<>>, sync |-> FALSE, call |-> 0]

\* no call in progress, the lock free (holder 0), no effect made yet
IdleConc == [lock |-> 0, g |-> [c \in Callers |-> IdleG], calls |-> 0, trace |-> <<>>]

Handles == 1..Len(heap)

\* ---- actions ----
BeginSession(email, password) ==
    /\ CanStep
    /\ Len(heap) < MaxSessions
    /\ LET fs == fullStateEvent(UserRecords, sessions, heap, email)
           args == [NoArgs EXCEPT !.email = email, !.password = password]
       IN IF fs.err # nil
          THEN /\ last' = [op |-> "BeginSession", s |-> 0, args |-> args,
                           err |-> fs.err, log |-> <<>>, built |-> <<>>,
                           got |-> <<>>, first |-> FALSE]
               /\ UNCHANGED <<sessions, heap, pushes, drained>>
          ELSE /\ heap' = Append(heap, [email |-> email, events |-> <<fs.ev[1]>>,
                                        intentionalDiscon |-> FALSE, closed |-> FALSE])
               /\ sessions' = Append(sessions, Len(heap) + 1)
               /\ pushes' = Append(pushes, 0)
               /\ drained' = Append(drained, FALSE)
               /\ last' = [op |-> "BeginSession", s |-> Len(heap) + 1, args |-> args,
                           err |-> nil, log |-> <<>>, built |-> fs.ev,
                           got |-> <<>>, first |-> FALSE]
    /\ nops' = nops + 1
    /\ UNCHANGED <<UserRecords, panicked, run, conc, conn>>

SetPassword(s, oldPass, newPass, wr) ==
    /\ CanStep
    /\ Apply("SetPassword", s,
             [NoArgs EXCEPT !.password = oldPass, !.newPass = newPass, !.wr = wr],
             SetPasswordOp(s, oldPass, newPass, wr))

SendRequest(s, email, wr) ==
    /\ CanStep
    /\ Apply("SendRequest", s, [NoArgs EXCEPT !.email = email, !.wr = wr],
             SendRequestOp(s, email, wr))

AcceptRequest(s, email, wr) ==
    /\ CanStep
    /\ Apply("AcceptRequest", s, [NoArgs EXCEPT !.email = email, !.wr = wr],
             AcceptRequestOp(s, email, wr))

DeleteBuddy(s, email, wr) ==
    /\ CanStep
    /\ Apply("DeleteBuddy", s, [NoArgs EXCEPT !.email = email, !.wr = wr],
             DeleteBuddyOp(s, email, wr))

SetStatus(s, status, wr) ==
    /\ CanStep
    /\ Apply("SetStatus", s, [NoArgs EXCEPT !.status = status, !.wr = wr],
             SetStatusOp(s, status, wr))

DisconnectOthers(s) ==
    /\ CanStep
    /\ Apply("DisconnectOthers", s, NoArgs, DisconnectOthersOp(s))

Close(s) ==
    /\ CanStep
    /\ Apply("Close", s, NoArgs, CloseOp(s))

\* the consumer of Events() receives one event
Receive(s) ==
    /\ CanStep
    /\ Len(heap[s].events) > 0
    /\ heap' = [heap EXCEPT ![s].events = Tail(@)]
    /\ drained' = [drained EXCEPT ![s] = TRUE]
    /\ last' = [op |-> "Receive", s |-> s, args |-> NoArgs, err |-> nil,
                log |-> <<>>, built |-> <<>>,
                got |-> <<Head(heap[s].events)>>, first |-> ~drained[s]]
    /\ nops' = nops + 1
    /\ UNCHANGED <<UserRecords, sessions, panicked, pushes, run, conc, conn>>

SetStatusFault(s, status, wr) ==
    /\ CanStep
    /\ Apply("SetStatusFault", s, [NoArgs EXCEPT !.status = status, !.wr = wr],
             SetStatusFaultOp(s, status, wr))

CloseFault(s) ==
    /\ CanStep
    /\ Apply("CloseFault", s, NoArgs, CloseFaultOp(s))

Init ==
    /\ UserRecords = [i \in 1..Len(Registered) |-> NewUser(Registered[i], InitialPassword)]
    /\ sessions = <<>>
    /\ heap = <<>>
    /\ panicked = FALSE
    /\ last = [op |-> "init", s |-> 0, args |-> NoArgs, err |-> nil,
               log |-> <<>>, built |-> <<>>, got |-> <<>>, first |-> FALSE]
    /\ pushes = <<>>
    /\ drained = <<>>
    /\ nops = 0
    /\ run = Idle
    /\ conn = NewBufferedConnection
    /\ conc = IdleConc

Next ==
    \/ \E email \in Emails, password \in Passwords : BeginSession(email, password)
    \/ \E s \in Handles, oldPass \in Passwords, newPass \in Passwords, wr \in BOOLEAN :
           SetPassword(s, oldPass, newPass, wr)
    \/ \E s \in Handles, email \in Emails, wr \in BOOLEAN : SendRequest(s, email, wr)
    \/ \E s \in Handles, email \in Emails, wr \in BOOLEAN : AcceptRequest(s, email, wr)
    \/ \E s \in Handles, email \in Emails, wr \in BOOLEAN : DeleteBuddy(s, email, wr)
    \/ \E s \in Handles, status \in Availabilities, wr \in BOOLEAN : SetStatus(s, status, wr)
    \/ \E s \in Handles : DisconnectOthers(s)
    \/ \E s \in Handles : Close(s)
    \/ \E s \in Handles : Receive(s)

Spec == Init /\ [][Next]_vars

\* a and b are buddies (a's request, accepted by b); a has closed its only
\* session, b's session is registered and its consumer has received
\* everything, the Offline StatusChanged of a's Close included
InitBuddies ==
    /\ UserRecords = [i \in 1..Len(Registered) |->
                         [NewUser(Registered[i], InitialPassword) EXCEPT
                              !.Buddies = <<Registered[3 - i]>>]]
    /\ sessions = <<2>>
    /\ heap = [t \in 1..2 |-> [email |-> Registered[t], events |-> <<>>,
                                intentionalDiscon |-> FALSE, closed |-> (t = 1)]]
    /\ panicked = FALSE
    /\ last = [op |-> "Receive", s |-> 2, args |-> NoArgs, err |-> nil,
               log |-> <<>>, built |-> <<>>,
               got |-> <<[Event("StatusChanged") EXCEPT !.Status = "Offline"]>>,
               first |-> FALSE]
    /\ pushes = <<2, 3>>
    /\ drained = <<TRUE, TRUE>>
    /\ nops = 2
    /\ run = Idle
    /\ conc = IdleConc
    /\ conn = NewBufferedConnection

\* the registry from a state in which two users are buddies
SpecBuddies == InitBuddies /\ [][Next]_vars

\* the registry over a DB whose GetUserInfo fails in broadcastNewStatus
NextFault ==
    \/ \E email \in Emails : BeginSession(email, InitialPassword)
    \/ \E s \in Handles, email \in Emails : SendRequest(s, email, TRUE)
    \/ \E s \in Handles, email \in Emails : AcceptRequest(s, email, TRUE)
    \/ \E s \in Handles, status \in Availabilities, wr \in BOOLEAN :
           SetStatusFault(s, status, wr)
    \/ \E s \in Handles : CloseFault(s)
    \/ \E s \in Handles : Receive(s)

SpecFault == Init /\ [][NextFault]_vars

Live == {sessions[i] : i \in 1..Len(sessions)}

\* ---- pushEvent and clearAndPush, statement by statement ----
\* The goroutine that holds localEventDB.lock runs one pushEvent (from a
\* fanout) or one eviction of disconnectOthers at a time on session run.s;
\* the consumers of Events() receive whenever their channel is not empty.
PushedEvents == {[Event("StatusChanged") EXCEPT !.Status = "Away"],
                 EventFor("BuddyRemoved", "b")}

OnChannel(s, q) == heap' = [heap EXCEPT ![s].events = q]

PushFrame == UNCHANGED <<UserRecords, panicked, last, pushes, drained, conc, conn>>

\* a fanout calls pushEvent(e) on registered session s
StartPush(s, e) ==
    /\ run.at = "idle"
    /\ nops < MaxOps
    /\ run' = [Idle EXCEPT !.at = "push_select", !.call = "pushEvent", !.s = s, !.e = e]
    /\ nops' = nops + 1
    /\ UNCHANGED <<heap, sessions>>
    /\ PushFrame

\* disconnectOthers, called by registered session c, reaches another session
\* s of c's identity: it sets the flag and calls clearAndPush
StartEvict(c, s) ==
    /\ run.at = "idle"
    /\ nops < MaxOps
    /\ s # c
    /\ emailsEquivalent(heap[s].email, heap[c].email)
    /\ run' = [Idle EXCEPT !.at = "cap_select", !.call = "disconnectOthers", !.s = s,
                           !.e = Event("IntentionalDisconnect")]
    /\ heap' = [heap EXCEPT ![s].intentionalDiscon = TRUE]
    /\ nops' = nops + 1
    /\ UNCHANGED sessions
    /\ PushFrame

\* pushEvent: select { case l.events <- e: return; default: }
PushSelect ==
    /\ run.at = "push_select"
    /\ IF Len(heap[run.s].events) < BufferSize
       THEN /\ OnChannel(run.s, Append(heap[run.s].events, run.e))
            /\ run' = [run EXCEPT !.at = "idle"]
       ELSE /\ run' = [run EXCEPT !.at = "push_full"]
            /\ UNCHANGED heap
    /\ UNCHANGED <<sessions, nops>>
    /\ PushFrame

\* pushEvent: newEvent, err := l.fullStateEvent(); ...; l.clearAndPush(newEvent)
PushFull ==
    /\ run.at = "push_full"
    /\ LET fs == fullStateEvent(UserRecords, sessions, heap, heap[run.s].email)
       IN run' = [run EXCEPT !.at = "cap_select",
                             !.e = IF fs.err # nil THEN SyncError(fs.err) ELSE fs.ev[1]]
    /\ UNCHANGED <<heap, sessions, nops>>
    /\ PushFrame

\* (variant: the channel is not emptied before the send)
CapSelect_NoDrain ==
    /\ run.at = "cap_select"
    /\ run' = [run EXCEPT !.at = "cap_send"]
    /\ UNCHANGED <<heap, sessions, nops>>
    /\ PushFrame

\* clearAndPush: select { case <-l.events: (loop); default: (go on to the send) }
CapSelect ==
    /\ run.at = "cap_select"
    /\ IF Len(heap[run.s].events) > 0
       THEN /\ OnChannel(run.s, Tail(heap[run.s].events))
            /\ run' = [run EXCEPT !.iters = @ + 1]
       ELSE /\ run' = [run EXCEPT !.at = "cap_send"]
            /\ UNCHANGED heap
    /\ UNCHANGED <<sessions, nops>>
    /\ PushFrame

\* clearAndPush: l.events <- e, a blocking send: it waits while the channel
\* is full.  disconnectOthers then deletes the session from the registry.
CapSend ==
    /\ run.at = "cap_send"
    /\ Len(heap[run.s].events) < BufferSize
    /\ OnChannel(run.s, Append(heap[run.s].events, run.e))
    /\ run' = [run EXCEPT !.at = "idle"]
    /\ sessions' = IF run.call = "disconnectOthers"
                   THEN SelectSeq(sessions, LAMBDA t : t # run.s)
                   ELSE sessions
    /\ UNCHANGED nops
    /\ PushFrame

\* the consumer of session s receives, possibly in the middle of a push
Consume(s) ==
    /\ Len(heap[s].events) > 0
    /\ OnChannel(s, Tail(heap[s].events))
    /\ drained' = [drained EXCEPT ![s] = TRUE]
    /\ run' = IF run.at # "idle" /\ run.s = s THEN [run EXCEPT !.raced = TRUE] ELSE run
    /\ UNCHANGED <<UserRecords, sessions, panicked, last, pushes, nops, conc, conn>>

\* the state after two BeginSession("a", "p") calls on the initial store
InitPush ==
    /\ UserRecords = [i \in 1..Len(Registered) |-> NewUser(Registered[i], InitialPassword)]
    /\ sessions = <<1, 2>>
    /\ heap = [t \in 1..2 |->
                  [email |-> "a",
                   events |-> fullStateEvent(UserRecords, <<>>, <<>>, "a").ev,
                   intentionalDiscon |-> FALSE, closed |-> FALSE]]
    /\ panicked = FALSE
    /\ last = [op |-> "BeginSession", s |-> 2,
               args |-> [NoArgs EXCEPT !.email = "a", !.password = "p"],
               err |-> nil, log |-> <<>>,
               built |-> fullStateEvent(UserRecords, <<>>, <<>>, "a").ev,
               got |-> <<>>, first |-> FALSE]
    /\ pushes = <<0, 0>>
    /\ drained = <<FALSE, FALSE>>
    /\ nops = 2
    /\ run = Idle
    /\ conn = NewBufferedConnection
    /\ conc = IdleConc

NextPush ==
    \/ \E s \in Live, e \in PushedEvents : StartPush(s, e)
    \/ \E c \in Live, s \in Live : StartEvict(c, s)
    \/ PushSelect
    \/ PushFull
    \/ CapSelect
    \/ CapSend
    \/ \E s \in Handles : Consume(s)

SpecPush == InitPush /\ [][NextPush]_vars

\* ---- SpecLock: concurrent calls, one statement of the critical section
\* per step ----
LockFrame == UNCHANGED <<last, nops, run, conn>>

At(g, pc) == ~panicked /\ conc.g[g].pc = pc

Goto(g, pc) == [conc EXCEPT !.g[g].pc = pc]

\* the call of goroutine g made an effect on shared state
Effect(c, g, kind, s) ==
    [c EXCEPT !.trace = Append(@, [call |-> conc.g[g].call, kind |-> kind, s |-> s])]

Calls(g, op, s, email, status) ==
    /\ At(g, "idle")
    /\ conc.calls < MaxCalls
    /\ conc' = [conc EXCEPT !.calls = @ + 1,
                            !.g[g] = [IdleG EXCEPT !.pc = "lock", !.op = op, !.s = s,
                                                   !.email = email, !.status = status,
                                                   !.call = conc.calls + 1]]
    /\ UNCHANGED <<UserRecords, sessions, heap, panicked, pushes, drained>>
    /\ LockFrame

CallSetStatus(g, s, status) == Calls(g, "SetStatus", s, heap[s].email, status)

CallClose(g, s) == Calls(g, "Close", s, heap[s].email, "Offline")

CallBeginSession(g, email) ==
    /\ Len(heap) < MaxSessions
    /\ Calls(g, "BeginSession", 0, email, "")

\* (variant: the lock is taken without waiting for it to be free)
Acquire_NoWait(g) ==
    /\ At(g, "lock")
    /\ conc' = [Goto(g, "body") EXCEPT !.lock = g]
    /\ UNCHANGED <<UserRecords, sessions, heap, panicked, pushes, drained>>
    /\ LockFrame

\* l.eventDB.lock.Lock(): waits until the lock is free
Acquire(g) ==
    /\ At(g, "lock")
    /\ conc.lock = 0
    /\ conc' = [Goto(g, "body") EXCEPT !.lock = g]
    /\ UNCHANGED <<UserRecords, sessions, heap, panicked, pushes, drained>>
    /\ LockFrame

\* genericOperation: the closed and intentionalDiscon tests
GenericCheck(g) ==
    /\ At(g, "body")
    /\ conc.g[g].op = "SetStatus"
    /\ conc' = IF heap[conc.g[g].s].closed \/ heap[conc.g[g].s].intentionalDiscon
               THEN Goto(g, "unlock")
               ELSE Goto(g, "mutate")
    /\ UNCHANGED <<UserRecords, sessions, heap, panicked, pushes, drained>>
    /\ LockFrame

\* SetStatus: l.eventDB.db.SetStatus(l.email, status)
SetStatusStore(g) ==
    /\ At(g, "mutate")
    /\ LET d == DBSetStatus(UserRecords, conc.g[g].email, conc.g[g].status, TRUE)
       IN /\ UserRecords' = d.recs
          /\ conc' = IF d.err # nil THEN Goto(g, "unlock")
                     ELSE Effect(Goto(g, "read"), g, "store", 0)
    /\ UNCHANGED <<sessions, heap, panicked, pushes, drained>>
    /\ LockFrame

\* broadcastNewStatus: info, err := l.db.GetUserInfo(email)
BroadcastRead(g) ==
    /\ At(g, "read")
    /\ LET ui == GetUserInfo(UserRecords, conc.g[g].email)
       IN conc' = [Goto(g, "loop") EXCEPT
                       !.g[g].i = 1,
                       !.g[g].sync = (ui.err # nil),
                       !.g[g].buddies = IF ui.err # nil THEN <<>> ELSE ui.info[1].Buddies]
    /\ UNCHANGED <<UserRecords, sessions, heap, panicked, pushes, drained>>
    /\ LockFrame

\* one iteration of the loop over l.sessions in broadcastNewStatus (or in
\* cannotBroadcast)
BroadcastStep(g) ==
    /\ At(g, "loop")
    /\ LET c == conc.g[g]
           e == IF c.sync THEN SyncError(<<"could not keep data consistent">>)
                ELSE [Event("StatusChanged") EXCEPT !.Status = c.status]
       IN IF c.i > Len(sessions)
          THEN /\ conc' = Goto(g, "unlock")
               /\ UNCHANGED <<heap, pushes>>
          ELSE LET t == sessions[c.i] IN
               IF c.sync \/ \E b \in 1..Len(c.buddies) :
                                emailsEquivalent(c.buddies[b], heap[t].email)
               THEN /\ heap' = pushEvent([hp |-> heap, log |-> <<>>, built |-> <<>>],
                                         UserRecords, sessions, t, e).hp
                    /\ pushes' = [pushes EXCEPT ![t] = @ + 1]
                    /\ conc' = Effect([conc EXCEPT !.g[g].i = @ + 1], g, "push", t)
               ELSE /\ conc' = [conc EXCEPT !.g[g].i = @ + 1]
                    /\ UNCHANGED <<heap, pushes>>
    /\ UNCHANGED <<UserRecords, sessions, panicked, drained>>
    /\ LockFrame

\* Close: the closed test, l.closed = true, the intentionalDiscon test
CloseCheck(g) ==
    /\ At(g, "body")
    /\ conc.g[g].op = "Close"
    /\ LET s == conc.g[g].s IN
       IF heap[s].closed
       THEN /\ conc' = Goto(g, "unlock")
            /\ UNCHANGED heap
       ELSE /\ heap' = [heap EXCEPT ![s].closed = TRUE]
            /\ conc' = Effect(IF heap[s].intentionalDiscon THEN Goto(g, "unlock")
                              ELSE Goto(g, "delete"), g, "session", s)
    /\ UNCHANGED <<UserRecords, sessions, panicked, pushes, drained>>
    /\ LockFrame

\* Close: the search of l in l.eventDB.sessions, UnorderedDelete and the
\* userOnline test; the panic when l is not in the list
CloseDelete(g) ==
    /\ At(g, "delete")
    /\ LET s == conc.g[g].s IN
       IF \E i \in 1..Len(sessions) : sessions[i] = s
       THEN LET reg1 == UnorderedDelete(sessions,
                            CHOOSE i \in 1..Len(sessions) : sessions[i] = s)
            IN /\ sessions' = reg1
               /\ conc' = Effect(IF userOnline(reg1, heap, conc.g[g].email)
                                 THEN Goto(g, "unlock") ELSE Goto(g, "read"),
                                 g, "registry", s)
               /\ UNCHANGED panicked
       ELSE /\ panicked' = TRUE
            /\ UNCHANGED <<sessions, conc>>
    /\ UNCHANGED <<UserRecords, heap, pushes, drained>>
    /\ LockFrame

\* BeginSession: the new localDBSession with its FullState on the channel
BeginBuild(g) ==
    /\ At(g, "body")
    /\ conc.g[g].op = "BeginSession"
    /\ LET fs == fullStateEvent(UserRecords, sessions, heap, conc.g[g].email) IN
       IF fs.err # nil
       THEN /\ conc' = Goto(g, "unlock")
            /\ UNCHANGED <<heap, pushes, drained>>
       ELSE /\ heap' = Append(heap, [email |-> conc.g[g].email, events |-> fs.ev,
                                     intentionalDiscon |-> FALSE, closed |-> FALSE])
            /\ pushes' = Append(pushes, 0)
            /\ drained' = Append(drained, FALSE)
            /\ conc' = [Goto(g, "register") EXCEPT !.g[g].s = Len(heap) + 1]
    /\ UNCHANGED <<UserRecords, sessions, panicked>>
    /\ LockFrame

\* BeginSession: l.sessions = append(l.sessions, res)
BeginRegister(g) ==
    /\ At(g, "register")
    /\ sessions' = Append(sessions, conc.g[g].s)
    /\ conc' = Effect(Goto(g, "unlock"), g, "registry", conc.g[g].s)
    /\ UNCHANGED <<UserRecords, heap, panicked, pushes, drained>>
    /\ LockFrame

\* the deferred l.eventDB.lock.Unlock(); the call returns
Release(g) ==
    /\ At(g, "unlock")
    /\ conc' = [conc EXCEPT !.lock = 0, !.g[g] = IdleG]
    /\ UNCHANGED <<UserRecords, sessions, heap, panicked, pushes, drained>>
    /\ LockFrame

\* a and b are buddies (a's request, accepted by b), each has one session
\* and the consumers have received everything
InitLock ==
    /\ UserRecords = [i \in 1..Len(Registered) |->
                         [NewUser(Registered[i], InitialPassword) EXCEPT
                              !.Buddies = <<Registered[3 - i]>>]]
    /\ sessions = <<1, 2>>
    /\ heap = [t \in 1..2 |-> [email |-> Registered[t], events |-> <<>>,
                                intentionalDiscon |-> FALSE, closed |-> FALSE]]
    /\ panicked = FALSE
    /\ last = [op |-> "Receive", s |-> 2, args |-> NoArgs, err |-> nil,
               log |-> <<>>, built |-> <<>>,
               got |-> <<EventWith("AcceptSent", "a", "Available")>>, first |-> FALSE]
    /\ pushes = <<2, 2>>
    /\ drained = <<TRUE, TRUE>>
    /\ nops = MaxOps
    /\ run = Idle
    /\ conn = NewBufferedConnection
    /\ conc = IdleConc

NextLock ==
    \/ \E g \in Callers, s \in Handles : CallSetStatus(g, s, "Away")
    \/ \E g \in Callers, s \in Handles : CallClose(g, s)
    \/ \E g \in Callers, email \in RegisteredEmails : CallBeginSession(g, email)
    \/ \E g \in Callers : Acquire(g)
    \/ \E g \in Callers : GenericCheck(g)
    \/ \E g \in Callers : SetStatusStore(g)
    \/ \E g \in Callers : BroadcastRead(g)
    \/ \E g \in Callers : BroadcastStep(g)
    \/ \E g \in Callers : CloseCheck(g)
    \/ \E g \in Callers : CloseDelete(g)
    \/ \E g \in Callers : BeginBuild(g)
    \/ \E g \in Callers : BeginRegister(g)
    \/ \E g \in Callers : Release(g)
    \/ \E s \in Handles : Consume(s)

SpecLock == InitLock /\ [][NextLock]_vars

\* ---- SpecConn: one BufferedConnection with a control sender, a state
\* sender and the writer ----
ConnFrame ==
    UNCHANGED <<UserRecords, sessions, heap, panicked, last, pushes, drained, nops, run, conc>>

\* WriteMessage of a control message reaches
\* select { case b.controlSends <- msg: ; case <-b.closeChan: }
\* With closeChan closed the select takes that case at once and the call
\* returns io.ErrClosedPipe (no receiver waits on controlSends then: the
\* writer's selects all have closeChan or a default); otherwise the sender
\* waits for the writer.
ControlSendBegin ==
    /\ conn.control = "idle"
    /\ conn' = [conn EXCEPT !.control = IF conn.closed THEN "failed" ELSE "sending"]
    /\ ConnFrame

\* close(b.closeChan): a control sender waiting in its select is released
\* through its <-b.closeChan case and returns io.ErrClosedPipe
Closed(c) ==
    [c EXCEPT !.closed = TRUE, !.control = IF @ = "sending" THEN "failed" ELSE @,
              !.inRange = (c.state = "range")]

\* WriteMessage of a state message: stateSendLock.Lock() and
\* select { case b.stateSends <- msg: return nil; default: ... }
Enqueue(c) ==
    IF Len(c.stateSends) < StateBufferSize
    THEN [c EXCEPT !.stateSends = Append(@, c.control = "sending")]
    ELSE [c EXCEPT !.state = "getter"]

StateSend ==
    /\ conn.state = "idle"
    /\ conn.nsends < MaxStateSends
    /\ conn' = [Enqueue(conn) EXCEPT !.nsends = @ + 1]
    /\ ConnFrame

\* fullState, err := b.stateGetter(); if err != nil { return err }
StateGetter(ok) ==
    /\ conn.state = "getter"
    /\ conn' = [conn EXCEPT !.state = IF ok THEN "range" ELSE "idle"]
    /\ ConnFrame

\* for _ = range b.stateSends {}: receives one message.  The channel is
\* never closed, so the loop has no exit: once the buffer is empty the sender
\* waits here, holding stateSendLock, and the send of the full state after
\* the loop is never reached.
StateRange ==
    /\ conn.state = "range"
    /\ Len(conn.stateSends) > 0
    /\ conn' = [conn EXCEPT !.stateSends = Tail(@)]
    /\ ConnFrame

\* Close: Connection.Close() and close(b.closeChan), once
Disconnect ==
    /\ ~conn.closed
    /\ conn' = Closed(conn)
    /\ ConnFrame

\* nextOutgoing: select { case <-b.closeChan: return nil; default: }
Select1 ==
    /\ conn.writer = "select1"
    /\ conn' = [conn EXCEPT !.writer = IF conn.closed THEN "done" ELSE "select2"]
    /\ ConnFrame

\* the writer receives the control message; the sender returns nil
TakeControl == [conn EXCEPT !.writer = "write", !.msg = "control", !.control = "sent"]

\* (variant: nextOutgoing without the select on controlSends alone)
Select2_NoPriority ==
    /\ conn.writer = "select2"
    /\ conn' = [conn EXCEPT !.writer = "select3"]
    /\ ConnFrame

\* nextOutgoing: select { case msg := <-b.controlSends: return msg; default: }
Select2 ==
    /\ conn.writer = "select2"
    /\ conn' = IF conn.control = "sending" THEN TakeControl
               ELSE [conn EXCEPT !.writer = "select3"]
    /\ ConnFrame

\* nextOutgoing, the last select: case <-b.closeChan
Select3Closed ==
    /\ conn.writer = "select3"
    /\ conn.closed
    /\ conn' = [conn EXCEPT !.writer = "done"]
    /\ ConnFrame

\* nextOutgoing, the last select: case msg := <-b.controlSends
Select3Control ==
    /\ conn.writer = "select3"
    /\ conn.control = "sending"
    /\ conn' = TakeControl
    /\ ConnFrame

\* nextOutgoing, the last select: case msg := <-b.stateSends.  When several
\* cases are ready the select takes any of them.
Select3State ==
    /\ conn.writer = "select3"
    /\ Len(conn.stateSends) > 0
    /\ conn' = [conn EXCEPT !.writer = "write", !.msg = "state",
                            !.stateSends = Tail(@),
                            !.overtook = IF conn.control = "sending" /\ @ < 2
                                         THEN @ + 1 ELSE @,
                            !.late = @ \/ (conn.control = "sending" /\ Head(conn.stateSends))]
    /\ ConnFrame

\* writeLoop: b.Connection.WriteMessage(msg.Type, msg.Data); on an error
\* b.Close() and return
Write(ok) ==
    /\ conn.writer = "write"
    /\ conn' = IF ok THEN [conn EXCEPT !.writer = "select1", !.msg = ""]
               ELSE [Closed(conn) EXCEPT !.writer = "done", !.msg = ""]
    /\ ConnFrame

NextConn ==
    \/ ControlSendBegin
    \/ StateSend
    \/ \E ok \in BOOLEAN : StateGetter(ok)
    \/ StateRange
    \/ Disconnect
    \/ Select1
    \/ Select2
    \/ Select3Closed
    \/ Select3Control
    \/ Select3State
    \/ \E ok \in BOOLEAN : Write(ok)

SpecConn == Init /\ [][NextConn]_vars

\* ---- SpecClose: Close statement by statement, called by several tasks
\* and by the writer after a failed write ----

\* a task calls b.Close() and reaches b.closeLock.Lock()
CloseCall(c) ==
    /\ conn.closer[c] = "idle"
    /\ conn.ncalls < MaxCloseCalls
    /\ conn' = [conn EXCEPT !.closer[c] = "lock", !.ncalls = @ + 1]
    /\ ConnFrame

\* writeLoop: the underlying WriteMessage succeeds
WriteDone ==
    /\ conn.writer = "write"
    /\ conn' = [conn EXCEPT !.writer = "select1", !.msg = ""]
    /\ ConnFrame

\* writeLoop: the underlying WriteMessage fails; the writer calls b.Close()
WriteFails ==
    /\ conn.writer = "write"
    /\ conn' = [conn EXCEPT !.writer = "closing", !.msg = "", !.closer[WriterTask] = "lock"]
    /\ ConnFrame

\* (variant: the lock is taken without waiting for it to be free)
CloseLock_NoWait(c) ==
    /\ conn.closer[c] = "lock"
    /\ conn' = [conn EXCEPT !.closeLock = c, !.closer[c] = "select"]
    /\ ConnFrame

\* b.closeLock.Lock()
CloseLock(c) ==
    /\ conn.closer[c] = "lock"
    /\ conn.closeLock = 0
    /\ conn' = [conn EXCEPT !.closeLock = c, !.closer[c] = "select"]
    /\ ConnFrame

\* select { case <-b.closeChan: ; default: b.Connection.Close() ... }
CloseSelect(c) ==
    /\ conn.closer[c] = "select"
    /\ conn' = IF conn.closed THEN [conn EXCEPT !.closer[c] = "unlock"]
               ELSE [conn EXCEPT !.closer[c] = "signal", !.nclose = @ + 1]
    /\ ConnFrame

\* close(b.closeChan)
CloseSignal(c) ==
    /\ conn.closer[c] = "signal"
    /\ conn' = [Closed(conn) EXCEPT !.closer[c] = "unlock", !.nsignal = @ + 1]
    /\ ConnFrame

\* the deferred b.closeLock.Unlock(); Close returns nil (the writer then
\* returns from writeLoop)
CloseReturn(c) ==
    /\ conn.closer[c] = "unlock"
    /\ conn' = [conn EXCEPT !.closeLock = 0, !.closer[c] = "idle", !.returned = @ + 1,
                            !.writer = IF c = WriterTask THEN "done" ELSE @]
    /\ ConnFrame

CloseStep(c) == CloseSelect(c) \/ CloseSignal(c) \/ CloseReturn(c)

NextClose ==
    \/ ControlSendBegin
    \/ Select1
    \/ Select2
    \/ Select3Closed
    \/ Select3Control
    \/ WriteDone
    \/ WriteFails
    \/ \E c \in ClosingTasks : CloseCall(c)
    \/ \E c \in ClosingTasks \cup {WriterTask} : CloseLock(c)
    \/ \E c \in ClosingTasks \cup {WriterTask} : CloseStep(c)

\* sync.Mutex hands the lock to a goroutine that keeps waiting for it
SpecClose ==
    /\ Init /\ [][NextClose]_vars
    /\ \A c \in ClosingTasks \cup {WriterTask} :
           SF_vars(CloseLock(c)) /\ WF_vars(CloseStep(c))

\* ---- SpecConnLive: the same connection with state-lane sends without
\* end, the writer and the state sender taking their steps ----

\* a state-lane WriteMessage, any number of them in one behaviour
StateSendAny ==
    /\ conn.state = "idle"
    /\ conn' = Enqueue(conn)
    /\ ConnFrame

\* a step of the writer goroutine; the underlying write completes
WriterStep ==
    \/ Select1
    \/ Select2
    \/ Select3Closed
    \/ Select3Control
    \/ Select3State
    \/ \E ok \in BOOLEAN : Write(ok)

\* a step of a state-lane WriteMessage after its select
StateSenderStep ==
    \/ \E ok \in BOOLEAN : StateGetter(ok)
    \/ StateRange

NextLive ==
    \/ ControlSendBegin
    \/ StateSendAny
    \/ Disconnect
    \/ WriterStep
    \/ StateSenderStep

SpecConnLive ==
    Init /\ [][NextLive]_vars /\ WF_vars(WriterStep) /\ WF_vars(StateSenderStep)

\* ---- vocabulary of the properties ----
Record(email) == UserRecords[CHOOSE i \in 1..Len(UserRecords) : UserRecords[i].Email = email]

HasLive(email) == \E t \in Live : heap[t].email = email

\* the status of identity email as the registry must show it
Shown(email) == IF HasLive(email) THEN Record(email).LatestStatus ELSE "Offline"

\* the FullState of identity email taken from the store and the registry of
\* the current state
Snapshot(email) ==
    [Type |-> "FullState", UserInfo |-> <<Record(email)>>,
     BuddyStatuses |-> [i \in 1..Len(Record(email).Buddies) |->
                           Shown(Record(email).Buddies[i])],
     Email |-> "", Status |-> "Offline", ErrorMessage |-> <<>>]

CauseOf(err) == IF err = nil THEN "nil" ELSE Cause(err)

MutatingOps == {"SetPassword", "SendRequest", "AcceptRequest", "DeleteBuddy",
                "SetStatus", "DisconnectOthers"}

Overflowed(p) == p.lenBefore = BufferSize

\* C1: a pushEvent on a session whose Outbox holds BufferSize events leaves
\* exactly one Event in it: the FullState re-read from the store at that push,
\* or a SyncError.  (Within one operation the store and the registry are final
\* before the first push, so the snapshot of the push is that of the state
\* the operation ends in.)
C1_OverflowCollapse ==
    \A i \in 1..Len(last.log) :
        Overflowed(last.log[i]) =>
            /\ Len(last.log[i].after) = 1
            /\ \/ last.log[i].after[1] = Snapshot(heap[last.log[i].s].email)
               \/ last.log[i].after[1].Type = "SyncError"

C1_Witness ==
    \E i \in 1..Len(last.log) :
        /\ Overflowed(last.log[i])
        /\ last.log[i].e.Type = "RequestSent"
        /\ last.log[i].after = <<Snapshot(heap[last.log[i].s].email)>>
        /\ Len(Record(heap[last.log[i].s].email).OutgoingRequests) > 0

Undrained(s) == ~drained[s] /\ ~heap[s].intentionalDiscon

\* C2 as stated: after more than BufferSize pushes with no draining the
\* Outbox holds exactly one entry, a FullState or a SyncError.
C2_Original ==
    \A s \in Handles :
        (Undrained(s) /\ pushes[s] > BufferSize) =>
            /\ Len(heap[s].events) = 1
            /\ heap[s].events[1].Type \in {"FullState", "SyncError"}

\* C2 amended: after N pushes with no draining the Outbox of a session
\* (which BeginSession loaded with the initial FullState) holds
\* (N mod BufferSize) + 1 entries, the oldest a FullState or a SyncError; it
\* holds exactly one entry when N is a multiple of BufferSize, and right
\* after such a push that entry is the fresh snapshot (or a SyncError).
C2_OutboxBound ==
    \A s \in Handles :
        Undrained(s) =>
            /\ Len(heap[s].events) = (pushes[s] % BufferSize) + 1
            /\ Len(heap[s].events) <= BufferSize
            /\ heap[s].events[1].Type \in {"FullState", "SyncError"}
            /\ (/\ pushes[s] > 0
                /\ pushes[s] % BufferSize = 0
                /\ CountFor(last.log, s) > 0)
               => \/ heap[s].events = <<Snapshot(heap[s].email)>>
                  \/ heap[s].events[1].Type = "SyncError"

C2_Witness ==
    \E s \in Handles :
        /\ Undrained(s)
        /\ pushes[s] = BufferSize
        /\ last.op = "SetStatus"
        /\ CountFor(last.log, s) > 0
        /\ heap[s].events = <<Snapshot(heap[s].email)>>

\* C3: the lock holder never waits on a consumer: whenever it is at the
\* blocking send of clearAndPush the channel has room, with or without a
\* consumer receiving during the call, and the receive loop of clearAndPush
\* makes at most BufferSize iterations.
C3_NeverBlocks ==
    /\ run.at = "cap_send" => Len(heap[run.s].events) < BufferSize
    /\ run.iters <= BufferSize

C3_Witness ==
    /\ run.at = "cap_send"
    /\ run.call = "pushEvent"
    /\ run.raced
    /\ run.iters > 0

\* the registry as it was when the events of last.built were constructed:
\* BeginSession builds its FullState before it appends the new session
LiveAtBuild ==
    IF last.op = "BeginSession" /\ last.err = nil THEN Live \ {last.s} ELSE Live

ShownAtBuild(email) ==
    IF \E t \in LiveAtBuild : heap[t].email = email
    THEN Record(email).LatestStatus
    ELSE "Offline"

\* C4: every buddy status of a FullState and the status of an AcceptSent or
\* RequestAccepted is, when the Event is constructed, the stored latestStatus
\* of that identity if it has a session in the registry and Offline otherwise.
C4_PresenceMasking ==
    \A k \in 1..Len(last.built) :
        LET ev == last.built[k] IN
        /\ ev.Type = "FullState" =>
              /\ Len(ev.BuddyStatuses) = Len(ev.UserInfo[1].Buddies)
              /\ \A i \in 1..Len(ev.BuddyStatuses) :
                     ev.BuddyStatuses[i] = ShownAtBuild(ev.UserInfo[1].Buddies[i])
        /\ ev.Type \in {"AcceptSent", "RequestAccepted"} =>
              ev.Status = ShownAtBuild(ev.Email)

C4_Witness ==
    \E k \in 1..Len(last.built) :
        /\ last.built[k].Type = "FullState"
        /\ \E i \in 1..Len(last.built[k].BuddyStatuses) :
               /\ last.built[k].BuddyStatuses[i] = "Offline"
               /\ Record(last.built[k].UserInfo[1].Buddies[i]).LatestStatus # "Offline"

\* C5: DisconnectOthers by live session s flags every other registered
\* session of s's identity, removes it from the registry and leaves exactly
\* one IntentionalDisconnect in its Outbox; every other session keeps its
\* registration, its flags and its Outbox.
C5_DisconnectOthers ==
    [][(last'.op = "DisconnectOthers" /\ last'.err = nil) =>
         \A t \in Handles :
             IF t # last'.s /\ t \in Live /\ heap[t].email = heap[last'.s].email
             THEN /\ heap'[t].intentionalDiscon
                  /\ \A i \in 1..Len(sessions') : sessions'[i] # t
                  /\ heap'[t].events = <<Event("IntentionalDisconnect")>>
             ELSE /\ heap'[t] = heap[t]
                  /\ (t \in Live) = (\E i \in 1..Len(sessions') : sessions'[i] = t)]_vars

C5_Witness ==
    /\ last.op = "DisconnectOthers"
    /\ last.err = nil
    /\ \E t \in Handles :
           /\ heap[t].intentionalDiscon
           /\ ~drained[t]
           /\ pushes[t] = BufferSize - 1
           /\ heap[t].events = <<Event("IntentionalDisconnect")>>
           /\ t \notin Live

Evicted(s) == heap[s].intentionalDiscon

\* C6 as stated: every mutating call of a force-evicted session, also after
\* that session was Closed, fails with ErrIntentionalDisconnect.
C6_Original ==
    (last.op \in MutatingOps /\ Evicted(last.s)) =>
        CauseOf(last.err) = "ErrIntentionalDisconnect"

\* C6 amended: every mutating call of a force-evicted session fails, with
\* ErrIntentionalDisconnect until the session is Closed and with ErrNotOpen
\* once it was Closed, and changes neither the store, the registry nor any
\* Outbox.
C6_EvictedCallsFail ==
    [][(last'.op \in MutatingOps /\ Evicted(last'.s)) =>
         /\ CauseOf(last'.err) =
                IF heap[last'.s].closed THEN "ErrNotOpen" ELSE "ErrIntentionalDisconnect"
         /\ last'.log = <<>>
         /\ UNCHANGED <<UserRecords, sessions, heap>>]_vars

C6_Witness ==
    /\ last.op \in MutatingOps
    /\ Evicted(last.s)
    /\ ~heap[last.s].closed
    /\ CauseOf(last.err) = "ErrIntentionalDisconnect"

PushesTo(log, t) == {i \in 1..Len(log) : log[i].s = t}

\* C7: a Close that removes the last registered session of identity X makes
\* exactly one push, of an Offline StatusChanged, to every registered
\* session of every buddy of X (appended when that Outbox has room) and no
\* push to any other session; a Close that leaves another session of X
\* registered changes no Outbox.
C7_CloseBroadcast ==
    [][(/\ last'.op = "Close"
        /\ ~heap[last'.s].closed
        /\ ~heap[last'.s].intentionalDiscon
        /\ ~panicked') =>
         LET s == last'.s
             X == heap[s].email
         IN IF \E t \in Live \ {s} : heap[t].email = X
            THEN /\ last'.log = <<>>
                 /\ \A t \in Handles : heap'[t].events = heap[t].events
            ELSE \A t \in Handles :
                     IF t \in Live \ {s} /\ containsEmail(Record(X).Buddies, heap[t].email)
                     THEN /\ Cardinality(PushesTo(last'.log, t)) = 1
                          /\ \A i \in PushesTo(last'.log, t) :
                                 /\ last'.log[i].e.Type = "StatusChanged"
                                 /\ last'.log[i].e.Status = "Offline"
                                 /\ Len(heap[t].events) < BufferSize =>
                                        heap'[t].events =
                                            Append(heap[t].events, last'.log[i].e)
                     ELSE /\ PushesTo(last'.log, t) = {}
                          /\ heap'[t].events = heap[t].events]_vars

C7_Witness ==
    /\ last.op = "Close"
    /\ last.err = nil
    /\ ~HasLive(heap[last.s].email)
    /\ \E i \in 1..Len(last.log) :
           /\ last.log[i].e.Type = "StatusChanged"
           /\ last.log[i].e.Status = "Offline"
           /\ heap[last.log[i].s].email # heap[last.s].email
           /\ last.log[i].after[Len(last.log[i].after)] = last.log[i].e

\* C8: Close on a session that was closed normally returns ErrNotOpen and
\* changes neither the registry, the store nor any session or Outbox.
C8_CloseIdempotent ==
    [][(last'.op = "Close" /\ heap[last'.s].closed /\ ~heap[last'.s].intentionalDiscon) =>
         /\ CauseOf(last'.err) = "ErrNotOpen"
         /\ last'.log = <<>>
         /\ UNCHANGED <<UserRecords, sessions, heap>>]_vars

C8_Witness ==
    /\ last.op = "Close"
    /\ CauseOf(last.err) = "ErrNotOpen"
    /\ ~heap[last.s].intentionalDiscon
    /\ heap[last.s].closed

\* C9: the first Close on a force-evicted session returns nil, leaves the
\* registry and the store as they are, and puts no Event in any Outbox.
C9_CloseEvicted ==
    [][(last'.op = "Close" /\ heap[last'.s].intentionalDiscon /\ ~heap[last'.s].closed) =>
         /\ last'.err = nil
         /\ last'.log = <<>>
         /\ ~panicked'
         /\ sessions' = sessions
         /\ UserRecords' = UserRecords
         /\ \A t \in Handles : heap'[t].events = heap[t].events]_vars

C9_Witness ==
    /\ last.op = "Close"
    /\ last.err = nil
    /\ heap[last.s].intentionalDiscon
    /\ heap[last.s].closed
    /\ heap[last.s].events = <<Event("IntentionalDisconnect")>>

\* C10: a BeginSession whose email is unknown or whose password does not
\* match the stored credential returns an error and registers no session.
C10_CredentialsChecked ==
    (/\ last.op = "BeginSession"
     /\ CheckLogin(UserRecords, last.args.email, last.args.password) # nil) =>
        /\ last.err # nil
        /\ last.s = 0

\* C11 as stated: the first Event the consumer of a session receives is a
\* FullState.
C11_Original ==
    [][(last'.op = "Receive" /\ last'.first) => last'.got[1].Type = "FullState"]_vars

FirstReceive == last.op = "Receive" /\ last.first

\* a FullState of identity email that is consistent in itself: the record of
\* that identity with one status per buddy
SelfConsistent(ev, email) ==
    /\ ev.Type = "FullState"
    /\ Len(ev.UserInfo) = 1
    /\ ev.UserInfo[1].Email = email
    /\ Len(ev.BuddyStatuses) = Len(ev.UserInfo[1].Buddies)

\* C11 amended: the first Event the consumer of a session receives is never
\* a delta: it is a self-consistent FullState (that of BeginSession or of an
\* overflow collapse) or a SyncError, unless the session was force-evicted
\* before that receive, and then it is the IntentionalDisconnect.
C11_FirstEvent ==
    FirstReceive =>
        IF heap[last.s].intentionalDiscon
        THEN last.got[1] = Event("IntentionalDisconnect")
        ELSE \/ SelfConsistent(last.got[1], heap[last.s].email)
             \/ last.got[1].Type = "SyncError"

\* the first receive follows operations of another session that pushed to
\* this one and made its Outbox overflow
C11_Witness ==
    /\ FirstReceive
    /\ pushes[last.s] >= BufferSize
    /\ SelfConsistent(last.got[1], heap[last.s].email)
    /\ Len(last.got[1].UserInfo[1].IncomingRequests) > 0

LiveCaller(s) == s \in Live /\ ~heap[s].closed /\ ~heap[s].intentionalDiscon

\* C12: a SetPassword(old, new) of a live session with the correct old
\* password (and a store that writes its file) succeeds, force-evicts every
\* other live session of the identity as DisconnectOthers does, and leaves
\* the caller registered.
C12_SetPasswordEvicts ==
    [][(/\ last'.op = "SetPassword"
        /\ LiveCaller(last'.s)
        /\ last'.args.wr
        /\ CheckLogin(UserRecords, heap[last'.s].email, last'.args.password) = nil) =>
         /\ last'.err = nil
         /\ last'.s \in {sessions'[i] : i \in 1..Len(sessions')}
         /\ \A t \in Live \ {last'.s} :
                heap[t].email = heap[last'.s].email =>
                    /\ heap'[t].intentionalDiscon
                    /\ heap'[t].events = <<Event("IntentionalDisconnect")>>
                    /\ \A i \in 1..Len(sessions') : sessions'[i] # t]_vars

StoreMutatingOps == {"SetPassword", "SendRequest", "AcceptRequest", "DeleteBuddy",
                     "SetStatus"}

\* C13: a mutating session operation that returns an error, a failed write
\* of the store's file included, leaves the user records as they were and
\* pushes no Event.
C13_AllOrNothing ==
    [][(last'.op \in StoreMutatingOps /\ last'.err # nil) =>
         /\ UserRecords' = UserRecords
         /\ last'.log = <<>>
         /\ \A t \in Handles : heap'[t].events = heap[t].events]_vars

Buddies(A, B) == containsEmail(Record(A).Buddies, B)

Outgoing(A, B) == containsEmail(Record(A).OutgoingRequests, B)

Incoming(A, B) == containsEmail(Record(A).IncomingRequests, B)

\* C14: for all users A and B of the store, at all times the request lists
\* are mirrored (B is in A's outgoing list exactly when A is in B's incoming
\* list), buddy membership is symmetric, and at most one of {A and B
\* buddies}, {request from A to B}, {request from B to A} holds.
C14_BuddyRelationship ==
    \A A \in RegisteredEmails, B \in RegisteredEmails :
        /\ Outgoing(A, B) <=> Incoming(B, A)
        /\ Buddies(A, B) <=> Buddies(B, A)
        /\ ~(Buddies(A, B) /\ Outgoing(A, B))
        /\ ~(Buddies(A, B) /\ Outgoing(B, A))
        /\ A # B => ~(Outgoing(A, B) /\ Outgoing(B, A))

\* a and b became buddies by an accepted request
C14_Witness ==
    /\ last.op = "AcceptRequest"
    /\ last.err = nil
    /\ heap[last.s].email = "b"
    /\ last.args.email = "a"
    /\ Buddies("a", "b")
    /\ Buddies("b", "a")

\* the operation taken makes exactly one pushEvent call on session t, with
\* event e, which is appended when the Outbox of t has room
PushedOnce(t, e) ==
    /\ Cardinality(PushesTo(last'.log, t)) = 1
    /\ \A i \in PushesTo(last'.log, t) :
           /\ last'.log[i].e = e
           /\ Len(heap[t].events) < BufferSize =>
                  heap'[t].events = Append(heap[t].events, e)

NotPushed(t) ==
    /\ PushesTo(last'.log, t) = {}
    /\ heap'[t].events = heap[t].events

SessionsOf(email) == {t \in Live : heap[t].email = email}

\* B, by session last'.s, accepts the request that A sent to B
Accepts(A, B) ==
    /\ last'.op = "AcceptRequest"
    /\ last'.err = nil
    /\ heap[last'.s].email = B
    /\ last'.args.email = A
    /\ A # B
    /\ Outgoing(A, B)

\* the records of A and B after the accept: buddies of each other, the
\* request gone from both lists
Befriended(A, B) ==
    /\ Buddies(A, B)' /\ Buddies(B, A)'
    /\ Record(A).OutgoingRequests' = removeEmail(Record(A).OutgoingRequests, B)
    /\ Record(B).IncomingRequests' = removeEmail(Record(B).IncomingRequests, A)
    /\ Record(A).IncomingRequests' = Record(A).IncomingRequests
    /\ Record(B).OutgoingRequests' = Record(B).OutgoingRequests
    /\ (Record(A).OutgoingRequests = <<B>> /\ Record(B).IncomingRequests = <<A>>
        /\ Record(A).IncomingRequests = <<>> /\ Record(B).OutgoingRequests = <<>>) =>
           /\ Record(A).OutgoingRequests' = <<>> /\ Record(A).IncomingRequests' = <<>>
           /\ Record(B).OutgoingRequests' = <<>> /\ Record(B).IncomingRequests' = <<>>

\* C15 as stated: after A's SendRequest(B) and B's AcceptRequest(A) the two
\* are buddies with empty request lists, A's sessions get AcceptSent and B's
\* sessions get RequestAccepted.
C15_Original ==
    [][\A A \in RegisteredEmails, B \in RegisteredEmails :
         Accepts(A, B) =>
             /\ Befriended(A, B)
             /\ \A t \in SessionsOf(A) : PushedOnce(t, EventWith("AcceptSent", B, Shown(B)))
             /\ \A t \in SessionsOf(B) :
                    PushedOnce(t, EventWith("RequestAccepted", A, Shown(A)))]_vars

\* C15 amended: after A's SendRequest(B) and B's AcceptRequest(A) the two
\* are buddies of each other and the request is gone from both lists (which
\* are empty when they held nothing else); every live session of A, the
\* requester, gets RequestAccepted with B's email and masked status, every
\* live session of B, the acceptor, gets AcceptSent with A's email and masked
\* status, and no other session gets anything.
C15_AcceptScenario ==
    [][\A A \in RegisteredEmails, B \in RegisteredEmails :
         Accepts(A, B) =>
             /\ Befriended(A, B)
             /\ \A t \in SessionsOf(A) :
                    PushedOnce(t, EventWith("RequestAccepted", B, Shown(B)))
             /\ \A t \in SessionsOf(B) : PushedOnce(t, EventWith("AcceptSent", A, Shown(A)))
             /\ \A t \in Handles \ (SessionsOf(A) \cup SessionsOf(B)) : NotPushed(t)]_vars

\* b accepted the request of a while a had a live session, and both request
\* lists are empty
C15_Witness ==
    /\ last.op = "AcceptRequest"
    /\ last.err = nil
    /\ heap[last.s].email = "b"
    /\ last.args.email = "a"
    /\ Record("a").OutgoingRequests = <<>> /\ Record("a").IncomingRequests = <<>>
    /\ Record("b").OutgoingRequests = <<>> /\ Record("b").IncomingRequests = <<>>
    /\ \E i \in 1..Len(last.log) :
           /\ heap[last.log[i].s].email = "a"
           /\ last.log[i].e.Type = "RequestAccepted"
    /\ \E i \in 1..Len(last.log) :
           /\ heap[last.log[i].s].email = "b"
           /\ last.log[i].e.Type = "AcceptSent"

Got(t, e) == \E i \in PushesTo(last'.log, t) : last'.log[i].e = e

\* session last'.s, of identity X, sends a request to identity T
Requests(X, T) ==
    /\ last'.op = "SendRequest"
    /\ last'.err = nil
    /\ heap[last'.s].email = X
    /\ last'.args.email = T

\* C16 as stated: a successful SendRequest(target) by session s pushes
\* RequestReceived to every live session of the target, RequestSent to every
\* live session of s's identity other than s, and nothing to s or to any
\* other session.
C16_Original ==
    [][\A X \in RegisteredEmails, T \in RegisteredEmails :
         Requests(X, T) =>
             /\ \A t \in SessionsOf(T) : Got(t, EventFor("RequestReceived", X))
             /\ \A t \in SessionsOf(X) \ {last'.s} : Got(t, EventFor("RequestSent", T))
             /\ ~Got(last'.s, EventFor("RequestSent", T))
             /\ \A t \in Handles \ (SessionsOf(T) \cup SessionsOf(X)) : NotPushed(t)]_vars

\* C16 amended: a successful SendRequest(target) by session s pushes
\* RequestReceived once to every live session of the target and RequestSent
\* once to every live session of s's identity, s itself included, and
\* nothing to any other session (when s's identity is the target, each of its
\* sessions gets the two pushes, RequestReceived first).
C16_SendRequestFanout ==
    [][\A X \in RegisteredEmails, T \in RegisteredEmails :
         Requests(X, T) =>
             /\ last'.s \in SessionsOf(X)
             /\ X # T =>
                    /\ \A t \in SessionsOf(T) : PushedOnce(t, EventFor("RequestReceived", X))
                    /\ \A t \in SessionsOf(X) : PushedOnce(t, EventFor("RequestSent", T))
             /\ X = T =>
                    \A t \in SessionsOf(X) :
                        \E i, j \in PushesTo(last'.log, t) :
                            /\ PushesTo(last'.log, t) = {i, j}
                            /\ i < j
                            /\ last'.log[i].e = EventFor("RequestReceived", X)
                            /\ last'.log[j].e = EventFor("RequestSent", T)
             /\ \A t \in Handles \ (SessionsOf(T) \cup SessionsOf(X)) : NotPushed(t)]_vars

\* a session of a sent a request to b while a had two live sessions and b
\* had one
C16_Witness ==
    /\ last.op = "SendRequest"
    /\ last.err = nil
    /\ heap[last.s].email = "a"
    /\ last.args.email = "b"
    /\ \E t \in Live \ {last.s} : heap[t].email = "a"
    /\ \E t \in Live : heap[t].email = "b"
    /\ Len(last.log) = 3

\* session last'.s, of identity X, sets its status
SetsStatus(X) ==
    /\ last'.op = "SetStatus"
    /\ last'.err = nil
    /\ heap[last'.s].email = X

StatusChanged(status) == [Event("StatusChanged") EXCEPT !.Status = status]

\* C17 as stated: a successful SetStatus(status) by session s pushes
\* StatusChanged with the new status to every live session of a buddy of
\* s's identity and nothing to the other live sessions of s's identity or to
\* sessions of non-buddies.
C17_Original ==
    [][\A X \in RegisteredEmails :
         SetsStatus(X) =>
             /\ \A t \in Live \ SessionsOf(X) :
                    IF containsEmail(Record(X).Buddies, heap[t].email)
                    THEN PushedOnce(t, StatusChanged(last'.args.status))
                    ELSE NotPushed(t)
             /\ \A t \in SessionsOf(X) \ {last'.s} : NotPushed(t)]_vars

\* C17 amended: a successful SetStatus(status) by session s pushes
\* StatusChanged with the new status once to every live session whose
\* identity is in the buddy list of s's identity, and nothing to any other
\* session; the sessions of s's own identity, s included, get nothing unless
\* that identity is in its own buddy list, and then they get the
\* StatusChanged as every buddy session does.
C17_SetStatusFanout ==
    [][\A X \in RegisteredEmails :
         SetsStatus(X) =>
             /\ Record(X).LatestStatus' = last'.args.status
             /\ \A t \in Handles :
                    IF t \in Live /\ containsEmail(Record(X).Buddies, heap[t].email)
                    THEN PushedOnce(t, StatusChanged(last'.args.status))
                    ELSE NotPushed(t)
             /\ ~Buddies(X, X) => \A t \in SessionsOf(X) : NotPushed(t)]_vars

\* a session of a set a's status to Away while its buddy b had a live
\* session, which got the StatusChanged
C17_Witness ==
    /\ last.op = "SetStatus"
    /\ last.err = nil
    /\ last.args.status = "Away"
    /\ heap[last.s].email = "a"
    /\ Buddies("a", "b")
    /\ ~Buddies("a", "a")
    /\ PushesTo(last.log, last.s) = {}
    /\ \E i \in 1..Len(last.log) :
           /\ heap[last.log[i].s].email = "b"
           /\ last.log[i].e = StatusChanged(last.args.status)

\* the call taken reaches broadcastNewStatus: a SetStatus that persisted, or
\* the Close of the last registered session of its identity
Broadcasts ==
    \/ /\ last'.op = "SetStatusFault"
       /\ last'.err = nil
    \/ /\ last'.op = "CloseFault"
       /\ LiveCaller(last'.s)
       /\ SessionsOf(heap[last'.s].email) = {last'.s}

\* C19: when GetUserInfo fails in broadcastNewStatus, after SetStatus
\* persisted or in the Close of an identity's last session, every session
\* registered at that moment gets one push of a SyncError (appended when its
\* Outbox has room), no session gets a StatusChanged, and the sessions not
\* registered get nothing.
C19_SyncErrorToAll ==
    [][Broadcasts =>
         \A t \in Handles :
             IF \E i \in 1..Len(sessions') : sessions'[i] = t
             THEN PushedOnce(t, SyncError(<<"could not keep data consistent">>))
             ELSE NotPushed(t)]_vars

\* a SetStatus whose broadcast failed left a SyncError behind the FullState
\* of a session of another, non-buddy identity
C19_Witness ==
    /\ last.op = "SetStatusFault"
    /\ last.err = nil
    /\ Record(heap[last.s].email).LatestStatus = "Away"
    /\ \E t \in Live :
           /\ heap[t].email # heap[last.s].email
           /\ ~Buddies(heap[last.s].email, heap[t].email)
           /\ Len(heap[t].events) = 2
           /\ heap[t].events[2].Type = "SyncError"

\* the statements between Lock() and Unlock()
InCriticalSection(g) == conc.g[g].pc \notin {"idle", "lock"}

\* C18: of the concurrent calls at most one is inside the critical section
\* at any time, and it holds the lock; the effects of one call (its store
\* mutation, its registry change, its pushes) are contiguous in the order of
\* all effects, so no effect of another call falls between them, in any
\* Outbox or elsewhere.
C18_FanoutAtomic ==
    /\ \A g \in Callers : InCriticalSection(g) => conc.lock = g
    /\ \A i, j, k \in 1..Len(conc.trace) :
           (i < j /\ j < k /\ conc.trace[i].call = conc.trace[k].call) =>
               conc.trace[j].call = conc.trace[i].call

\* one call made its store mutation and a push while another call waited
\* for the lock, after an earlier call had made its effects
C18_Witness ==
    \E g \in Callers, h \in Callers :
        /\ conc.g[g].pc = "loop"
        /\ conc.g[h].pc = "lock"
        /\ conc.g[h].call < conc.g[g].call
        /\ \E i, j, k \in 1..Len(conc.trace) :
               /\ i < j /\ j < k
               /\ conc.trace[i].call < conc.g[h].call
               /\ conc.trace[j].call = conc.g[g].call /\ conc.trace[j].kind = "store"
               /\ conc.trace[k].call = conc.g[g].call /\ conc.trace[k].kind = "push"

\* C20 as stated: the writer takes the control message before any state
\* message that was enqueued after the control send began.
C20_Original == ~conn.late

\* C20 amended: from the moment the control send begins until the writer
\* takes the control message (or the send fails on the closed connection),
\* the writer takes at most one state message, which may be one enqueued
\* after the control send began (the writer was already past the select on
\* controlSends alone); after writing a message the writer takes a waiting
\* control message before any state message.
C20_BoundedOvertaking ==
    /\ conn.overtook <= 1
    /\ (conn.late \/ conn.overtook = 1) => conn.control # "idle"
    /\ (conn.writer = "select3" /\ conn.control = "sending") => conn.overtook = 0

\* the writer took a state message enqueued after the control send began,
\* then the control message
C20_Witness ==
    /\ conn.late
    /\ conn.overtook = 1
    /\ conn.control = "sent"
    /\ conn.msg = "control"
    /\ ~conn.closed

\* C21: a control-lane WriteMessage that waits for the writer is eventually
\* taken by the writer, or the connection closes, however many state
\* messages are queued and keep being enqueued.
C21_ControlNotStarved ==
    (conn.control = "sending") ~> (conn.control = "sent" \/ conn.closed)

\* the writer has taken the control message with the state buffer full and
\* after one state message overtook it
C21_Witness ==
    /\ conn.control = "sent"
    /\ conn.overtook = 1
    /\ Len(conn.stateSends) = StateBufferSize
    /\ ~conn.closed

\* C22: a state-lane WriteMessage that found the buffer full and whose
\* StateGetter succeeded returns, without waiting for the writer.
C22_OverflowReturns == (conn.state = "range") ~> (conn.state = "idle")

\* C23: for any number of Close calls from any tasks, the writer after a
\* failed write included, in any interleaving, the underlying connection's
\* Close is called at most once and the closing signal is raised at most
\* once, both exactly once as soon as a Close call has returned, and every
\* Close call returns.
C23_CloseOnce ==
    /\ [](/\ conn.nclose <= 1
          /\ conn.nsignal <= 1
          /\ conn.closed <=> conn.nsignal = 1
          /\ conn.returned > 0 => (conn.nclose = 1 /\ conn.nsignal = 1))
    /\ \A c \in ClosingTasks \cup {WriterTask} :
           (conn.closer[c] # "idle") ~> (conn.closer[c] = "idle")

\* three Close calls have returned, one of them the writer's, while another
\* task waits for closeLock
C23_Witness ==
    /\ conn.returned = 3
    /\ conn.writer = "done"
    /\ conn.nclose = 1
    /\ \E c \in ClosingTasks : conn.closer[c] = "lock"

\* C24: after Close, a control-lane WriteMessage that was waiting has
\* returned, a state-lane WriteMessage that was inside its overflow loop
\* eventually returns, and the writer eventually exits.
C24_CloseUnblocks ==
    /\ [](conn.closed => conn.control # "sending")
    /\ conn.closed ~> (conn.writer = "done")
    /\ conn.inRange ~> (conn.state = "idle")

\* C25: once Close has returned, a WriteMessage called later returns an
\* error and hands no message to the writer: a control-lane call fails and a
\* state-lane call puts nothing into the state buffer.
C25_ClosedRefusesSends ==
    [][conn.closed =>
         /\ (conn.control = "idle" /\ conn'.control # "idle") => conn'.control = "failed"
         /\ conn'.nsends > conn.nsends =>
                (conn'.stateSends = conn.stateSends /\ conn'.state = "idle")]_vars

\* the number of entries of the registry list that are session s
TimesRegistered(s) == Cardinality({i \in 1..Len(sessions) : sessions[i] = s})

\* C26: in every reachable state a session created by BeginSession is in the
\* registry list exactly once when it is neither closed nor force-evicted
\* and not at all otherwise, the list holds nothing else, and the panic of
\* Close has not happened.
C26_RegistryBookkeeping ==
    /\ \A s \in Handles :
           TimesRegistered(s) =
               IF ~heap[s].closed /\ ~heap[s].intentionalDiscon THEN 1 ELSE 0
    /\ \A i \in 1..Len(sessions) : sessions[i] \in Handles
    /\ ~panicked

\* one session was evicted and then closed, another closed itself, and the
\* registry list is empty
C26_Witness ==
    /\ sessions = <<>>
    /\ \E s \in Handles : heap[s].intentionalDiscon /\ heap[s].closed
    /\ \E s \in Handles : ~heap[s].intentionalDiscon /\ heap[s].closed

\* identity X goes from no live session to one through BeginSession
ComesOnline(X) ==
    /\ last'.op = "BeginSession"
    /\ last'.err = nil
    /\ last'.args.email = X
    /\ ~HasLive(X)

\* C27: when X goes from zero to one live session through BeginSession,
\* every live session of a buddy of X is sent an Event, and the Event it
\* gets last shows X's stored status (a StatusChanged with that status, or a
\* FullState).
C27_OnlineAnnounced ==
    [][\A X \in RegisteredEmails :
         ComesOnline(X) =>
             \A t \in Live :
                 containsEmail(Record(X).Buddies, heap[t].email) =>
                     /\ heap'[t].events # heap[t].events
                     /\ LET e == heap'[t].events[Len(heap'[t].events)]
                        IN \/ e.Type = "FullState"
                           \/ /\ e.Type = "StatusChanged"
                              /\ e.Status = Record(X).LatestStatus]_vars

\* C28: every StatusChanged pushed by SetStatus or by a last-session Close
\* carries in its Email field the identity whose status changed, the
\* caller's.
C28_StatusChangedNamesUser ==
    last.op \in {"SetStatus", "Close"} =>
        \A i \in 1..Len(last.log) :
            last.log[i].e.Type = "StatusChanged" =>
                last.log[i].e.Email = heap[last.s].email

====
